---- MODULE Spec2Model ----
(***************************************************************************)
(* Budget-governed admission control for metered model calls.              *)
(*                                                                         *)
(* CostTracker (src/src/observability/tracker.py) and the call gateway     *)
(* OpenRouterClient.call_model (src/src/api/openrouter_client.py).         *)
(*                                                                         *)
(* Money is an integer number of cost units: the code computes             *)
(*   cost = tokens / 1_000_000 * price                                     *)
(* in dollars; the model computes tokens * price with the prices written   *)
(* in multiples of $0.05 per million tokens, so one dollar is              *)
(* PriceUnitsPerDollar * TokensPerPriceUnit cost units and every amount    *)
(* the code can produce from the price table is an exact integer.          *)
(* Floating-point rounding is not modelled.                                *)
(*                                                                         *)
(* Scheduling: the methods of CostTracker are coroutines that never        *)
(* suspend (sqlite3 is called synchronously), so each runs atomically on   *)
(* the event loop.  call_model suspends at the provider round trip only.   *)
(***************************************************************************)
EXTENDS Integers, Sequences, FiniteSets, TLC

VARIABLES
    budget,            \* CostTracker.budget of the gateway's tracker
                       \*   (routes/research.py: cost_tracker)
    costs_budget,      \* CostTracker.budget of the tracker of the cost
                       \*   routes (routes/costs.py: cost_tracker)
    current_run_id,    \* CostTracker.current_run_id (None when no run)
    current_run_cost,  \* CostTracker.current_run_cost
    ledger,            \* rows of table cost_tracking, in insertion order
    call,              \* per caller: the frame of its call_model invocation
    now,               \* the UTC clock, in ticks
    tz,                \* local clock minus UTC clock, in ticks
    next_run,          \* number of run identifiers generated so far
    ncalls,            \* number of call_model invocations started so far
    workflows,         \* routes/research.py: the runs whose background
                       \*   workflow is scheduled and has not finished,
                       \*   with the status of their research_runs record
    ret                \* what the tracker operation or route of this step
                       \*   returned

vars == <<budget, costs_budget, current_run_id, current_run_cost, ledger, call, now, tz,
          next_run, ncalls, workflows, ret>>

None == "None"    \* Python's None where a string is expected
NoRun == 0        \* current_run_id = None; run identifiers are 1, 2, ...

(***************************************************************************)
(* Bounds of the model.                                                    *)
(***************************************************************************)
MaxCalls == 2       \* call_model invocations, all callers together
MaxRuns == 2        \* run identifiers generated
MaxTicks == 1       \* clock ticks after construction
TicksPerDay == 2    \* model calendar: ticks in a day
DaysPerMonth == 2   \* model calendar: days in a month

Callers == {"c1", "c2"}

(***************************************************************************)
(* Units.                                                                  *)
(***************************************************************************)
TokensPerPriceUnit == 1000000
PriceUnitsPerDollar == 20
Dollar == PriceUnitsPerDollar * TokensPerPriceUnit
Cent == Dollar \div 100

(***************************************************************************)
(* OpenRouterClient.MODEL_PRICING and MODELS.                              *)
(***************************************************************************)
Sonnet == "anthropic/claude-3.5-sonnet"
Gpt4o == "openai/gpt-4o"
Gpt4oMini == "openai/gpt-4o-mini"
Sonar == "perplexity/llama-3.1-sonar-large-128k-online"
LlamaFree == "meta-llama/llama-3.1-8b-instruct:free"
Unlisted == "unlisted/model"

\* prices per 1M tokens, in multiples of $0.05
MODEL_PRICING ==
    (Sonnet :> [input |-> 60, output |-> 300]) @@
    (Gpt4o :> [input |-> 100, output |-> 300]) @@
    (Gpt4oMini :> [input |-> 3, output |-> 12]) @@
    (Sonar :> [input |-> 20, output |-> 20]) @@
    (LlamaFree :> [input |-> 0, output |-> 0])

MODELS ==
    [primary |-> Sonnet, fallback |-> Gpt4oMini, web_search |-> Sonar,
     cost_effective |-> Gpt4oMini, free |-> LlamaFree]

\* a model absent from the table priced at zero
PricingZeroIfAbsent(model) ==
    IF model \in DOMAIN MODEL_PRICING THEN MODEL_PRICING[model]
    ELSE [input |-> 0, output |-> 0]

\* MODEL_PRICING.get(model, MODEL_PRICING["anthropic/claude-3.5-sonnet"])
Pricing(model) ==
    IF model \in DOMAIN MODEL_PRICING THEN MODEL_PRICING[model]
    ELSE MODEL_PRICING[Sonnet]

\* _calculate_cost, times TokensPerPriceUnit
CalculateCost(model, input_tokens, output_tokens) ==
    input_tokens * Pricing(model).input + output_tokens * Pricing(model).output

\* _estimate_call_cost: req.chars is the summed length of the messages
EstimateCallCost(req, model) ==
    CalculateCost(model, req.chars \div 4, req.max_tokens \div 2)

(***************************************************************************)
(* BudgetConfig.                                                           *)
(***************************************************************************)
BudgetConfig(mh, ms, rs, rh, ds) ==
    [monthly_hard_cap |-> mh, monthly_soft_cap |-> ms, per_run_soft_cap |-> rs,
     per_run_hard_cap |-> rh, daily_soft_cap |-> ds]

\* the dataclass defaults: 20.00, 15.00, 1.50, 3.00, 2.00
DefaultBudget ==
    BudgetConfig(20 * Dollar, 15 * Dollar, 150 * Cent, 3 * Dollar, 2 * Dollar)

(***************************************************************************)
(* The clock.  datetime.utcnow() is `now'; datetime.now() is now + tz.     *)
(* Both are naive datetimes and the code compares their isoformat()        *)
(* strings, that is, compares the two readings as they stand.              *)
(***************************************************************************)
TicksPerMonth == TicksPerDay * DaysPerMonth
LocalNow == now + tz
\* datetime.now().replace(day=1, hour=0, minute=0, second=0, microsecond=0)
MonthStart == LocalNow - (LocalNow % TicksPerMonth)
\* datetime.now().replace(hour=0, minute=0, second=0, microsecond=0)
DayStart == LocalNow - (LocalNow % TicksPerDay)

(***************************************************************************)
(* The ledger: table cost_tracking.                                        *)
(***************************************************************************)
CostEntry(run_id, model, input_tokens, output_tokens, cost, timestamp) ==
    [run_id |-> run_id, model_name |-> model, input_tokens |-> input_tokens,
     output_tokens |-> output_tokens, cost |-> cost, timestamp |-> timestamp]

\* SELECT COALESCE(SUM(cost), 0) FROM cost_tracking WHERE timestamp >= since
RECURSIVE SumCost(_, _)
SumCost(rows, since) ==
    IF rows = <<>> THEN 0
    ELSE (IF Head(rows).timestamp >= since THEN Head(rows).cost ELSE 0)
         + SumCost(Tail(rows), since)

(***************************************************************************)
(* CostTracker.get_budget_status.  read_ok = FALSE is the except branch:   *)
(* the aggregates could not be read and both usages are 0.0.               *)
(***************************************************************************)
\* monthly_percentage > 80, with monthly_percentage = usage / hard * 100
\* (the caps are multiples of 5 units; a division by a negative cap turns
\* the comparison round)
Over80Percent(usage, hard) ==
    IF hard > 0 THEN usage > (4 * hard) \div 5 ELSE usage < (4 * hard) \div 5

\* x < cap * 1.5
BelowOneAndHalf(x, cap) == 2 * x < 3 * cap
\* the comparison without the 50% buffer
AboveCap(x, cap) == x > cap

\* x > cap * 1.5
AboveOneAndHalf(x, cap) == 2 * x > 3 * cap

\* lines 285-305, for a tracker whose budget is b and whose run cost is run_cost
WarningsFor(b, run_cost, monthly_usage, daily_usage) ==
    (IF monthly_usage > b.monthly_soft_cap
        THEN {"Monthly soft cap exceeded"} ELSE {}) \cup
    (IF Over80Percent(monthly_usage, b.monthly_hard_cap)
        THEN {"Monthly budget at capacity"} ELSE {}) \cup
    (IF run_cost > b.per_run_soft_cap
        THEN {"Current run cost exceeds soft cap"} ELSE {}) \cup
    (IF daily_usage > b.daily_soft_cap
        THEN {"Daily usage exceeded"} ELSE {}) \cup
    (IF b.monthly_hard_cap - monthly_usage < b.per_run_soft_cap
        THEN {"Insufficient budget remaining for another full run"} ELSE {})

\* lines 279-283
CanContinueFor(b, run_cost, monthly_usage, daily_usage) ==
    /\ monthly_usage < b.monthly_hard_cap
    /\ run_cost < b.per_run_hard_cap
    /\ BelowOneAndHalf(daily_usage, b.daily_soft_cap)

\* line 276: monthly_usage / monthly_hard_cap raises when the cap is 0, and
\* get_budget_status raises with it; the division is outside the try
StatusRaises(b) == b.monthly_hard_cap = 0
ZeroDivision == [type |-> "ZeroDivisionError"]

\* the BudgetStatus that get_budget_status returns when it does not raise
BudgetStatusOf(b, run_cost, read_ok) ==
    LET monthly_usage == IF read_ok THEN SumCost(ledger, MonthStart) ELSE 0
        daily_usage == IF read_ok THEN SumCost(ledger, DayStart) ELSE 0
    IN [monthly_usage |-> monthly_usage,
        monthly_limit |-> b.monthly_hard_cap,
        monthly_remaining |-> b.monthly_hard_cap - monthly_usage,
        daily_usage |-> daily_usage,
        daily_limit |-> b.daily_soft_cap,
        current_run_cost |-> run_cost,
        run_limit |-> b.per_run_hard_cap,
        can_continue |-> CanContinueFor(b, run_cost, monthly_usage, daily_usage),
        warnings |-> WarningsFor(b, run_cost, monthly_usage, daily_usage)]

\* the gateway's tracker
Warnings(monthly_usage, daily_usage) ==
    WarningsFor(budget, current_run_cost, monthly_usage, daily_usage)

CanContinue(monthly_usage, daily_usage) ==
    CanContinueFor(budget, current_run_cost, monthly_usage, daily_usage)

\* a failed read reported as a month and a day spent up to the caps
GetBudgetStatusFailsClosed(read_ok) ==
    IF read_ok THEN BudgetStatusOf(budget, current_run_cost, TRUE)
    ELSE [BudgetStatusOf(budget, current_run_cost, FALSE) EXCEPT
              !.monthly_usage = budget.monthly_hard_cap,
              !.monthly_remaining = 0,
              !.daily_usage = 2 * budget.daily_soft_cap,
              !.can_continue = FALSE]

GetBudgetStatus(read_ok) == BudgetStatusOf(budget, current_run_cost, read_ok)

(***************************************************************************)
(* CostTracker.can_make_call, given the status it read.                    *)
(***************************************************************************)
\* can_make_call with the monthly check left out
CanMakeCallNoMonthly(status, estimated_cost) ==
    /\ ~(current_run_cost + estimated_cost > budget.per_run_hard_cap)
    /\ ~AboveOneAndHalf(status.daily_usage + estimated_cost, budget.daily_soft_cap)

CanMakeCall(status, estimated_cost) ==
    /\ ~(status.monthly_usage + estimated_cost > budget.monthly_hard_cap)
    /\ ~(current_run_cost + estimated_cost > budget.per_run_hard_cap)
    /\ ~AboveOneAndHalf(status.daily_usage + estimated_cost, budget.daily_soft_cap)

(***************************************************************************)
(* Inputs.                                                                 *)
(***************************************************************************)
\* request shapes: summed message length and max_tokens
Requests ==
    {[chars |-> 400003, max_tokens |-> 200001]}

\* the `model' argument of call_model; None selects MODELS["primary"]
RequestedModels == {None, MODELS.cost_effective}

\* the "usage" object of a provider reply; NoUsage: the reply has none
NoUsage == [absent |-> TRUE]
UsageData ==
    {[prompt_tokens |-> 50, completion_tokens |-> 20],
     [prompt_tokens |-> 100000, completion_tokens |-> 200000]}
Replies(req) ==
    {NoUsage} \cup {u \in UsageData : u.completion_tokens <= req.max_tokens}

\* usage_data.get("prompt_tokens", 0), usage_data.get("completion_tokens", 0)
PromptTokens(usage) == IF usage = NoUsage THEN 0 ELSE usage.prompt_tokens
CompletionTokens(usage) == IF usage = NoUsage THEN 0 ELSE usage.completion_tokens

\* a budget_config passed to the constructor: a roomy daily cap
RoomyDayBudget ==
    BudgetConfig(5 * Dollar, 4 * Dollar, 150 * Cent, 3 * Dollar, 10 * Dollar)

\* the clock at construction: the last tick of a month
StartTick == 3 * TicksPerMonth - 1

\* rows the database file holds at construction, written by earlier processes
\* $19.89 spent the day before
SpentYesterday ==
    <<CostEntry(NoRun, Sonnet, 0, 1326000,
                CalculateCost(Sonnet, 0, 1326000), StartTick - TicksPerDay)>>
\* $2.40 spent earlier on the day
SpentToday ==
    <<CostEntry(NoRun, Sonnet, 0, 160000,
                CalculateCost(Sonnet, 0, 160000), StartTick)>>

\* the configurations at construction: budget, rows on file, clock offset
Constructions ==
    {<<DefaultBudget, <<>>, 0>>,
     <<DefaultBudget, SpentYesterday, 0>>,
     <<DefaultBudget, SpentToday, -1>>,
     <<RoomyDayBudget, <<>>, 1>>}

(***************************************************************************)
(* The frame of a call_model invocation.                                   *)
(*   pc             idle | inflight | returned | raised; a caller whose    *)
(*                  invocation has returned or raised may call again       *)
(*   model          the `model' of the innermost call_model frame          *)
(*   estimated_cost the local of that frame                                *)
(*   admitted       the status can_make_call read for that frame, and the  *)
(*                  tracker's current_run_id at that moment                *)
(*   attempts       client.post calls made by this invocation              *)
(*   recorded       rows this invocation inserted                          *)
(*   response       the OpenRouterResponse returned                        *)
(*   error          the exception raised                                   *)
(***************************************************************************)
\* no tracker operation returned in this step
NoReturn == [op |-> None]

\* a local that is unbound, or None, where a record is expected
Unbound == [unbound |-> TRUE]

IdleFrame ==
    [pc |-> "idle", model |-> None, req |-> Unbound, estimated_cost |-> 0,
     admitted |-> Unbound, attempts |-> 0, recorded |-> 0, response |-> Unbound,
     error |-> Unbound]

Init ==
    /\ \E k \in Constructions :
           budget = k[1] /\ ledger = k[2] /\ tz = k[3]
    /\ costs_budget = DefaultBudget
    /\ current_run_id = NoRun
    /\ current_run_cost = 0
    /\ call = [c \in Callers |-> IdleFrame]
    /\ now = StartTick
    /\ next_run = 0
    /\ ncalls = 0
    /\ workflows = <<>>
    /\ ret = NoReturn

(***************************************************************************)
(* call_model, lines 94-97: estimate, admission check, and either the      *)
(* ValueError or the provider request.  `frame' is the caller's frame on   *)
(* entry, `model' the model of this (possibly recursive) call.             *)
(***************************************************************************)
BudgetError(estimated_cost) ==
    [type |-> "ValueError", message |-> "Budget exceeded",
     estimated_cost |-> estimated_cost, warnings |-> {}]

\* an exception leaves call_model: the frame's locals are gone
Raised(frame, error) ==
    [IdleFrame EXCEPT !.pc = "raised", !.error = error,
                      !.attempts = frame.attempts, !.recorded = frame.recorded]

\* the request sent before the admission check is consulted
EnterRequestFirst(frame, model, read_ok) ==
    LET estimated_cost == EstimateCallCost(frame.req, model)
        status == GetBudgetStatus(read_ok)
        entered == [frame EXCEPT !.model = model,
                                 !.estimated_cost = estimated_cost,
                                 !.attempts = @ + 1,
                                 !.admitted = [monthly_usage |-> status.monthly_usage,
                                               read_ok |-> read_ok,
                                               rows |-> Len(ledger),
                                               run_id |-> current_run_id]]
    IN IF CanMakeCall(status, estimated_cost)
       THEN [entered EXCEPT !.pc = "inflight"]
       ELSE Raised(entered, BudgetError(estimated_cost))

\* the estimate of the first entry kept for the entry of the fallback model
EnterWithFirstEstimate(frame, model, read_ok) ==
    LET estimated_cost == IF frame.attempts = 0
                          THEN EstimateCallCost(frame.req, model)
                          ELSE frame.estimated_cost
        status == GetBudgetStatus(read_ok)
        entered == [frame EXCEPT !.model = model,
                                 !.estimated_cost = estimated_cost,
                                 !.admitted = [monthly_usage |-> status.monthly_usage,
                                               read_ok |-> read_ok,
                                               rows |-> Len(ledger),
                                               run_id |-> current_run_id]]
    IN IF CanMakeCall(status, estimated_cost)
       THEN [entered EXCEPT !.pc = "inflight", !.attempts = @ + 1]
       ELSE Raised(frame, BudgetError(estimated_cost))

Enter(frame, model, read_ok) ==
    LET estimated_cost == EstimateCallCost(frame.req, model)
        status == GetBudgetStatus(read_ok)
        entered == [frame EXCEPT !.model = model,
                                 !.estimated_cost = estimated_cost,
                                 !.admitted = [monthly_usage |-> status.monthly_usage,
                                               read_ok |-> read_ok,
                                               rows |-> Len(ledger),
                                               run_id |-> current_run_id]]
    IN IF StatusRaises(budget)
       THEN Raised(frame, ZeroDivision)
       ELSE IF CanMakeCall(status, estimated_cost)
            THEN [entered EXCEPT !.pc = "inflight", !.attempts = @ + 1]
            ELSE Raised(frame, BudgetError(estimated_cost))

\* lines 91-92: model = MODELS["primary"] if model is None
ModelOrPrimary(model_arg) ==
    IF model_arg = None THEN MODELS.primary ELSE model_arg

CallModel(c, req, model_arg, read_ok) ==
    /\ call[c].pc \in {"idle", "returned", "raised"}
    /\ ncalls < MaxCalls
    /\ ncalls' = ncalls + 1
    /\ LET frame == [IdleFrame EXCEPT !.req = req]
       IN call' = [call EXCEPT
               ![c] = Enter(frame, ModelOrPrimary(model_arg), read_ok)]
    /\ ret' = NoReturn
    /\ UNCHANGED <<workflows, budget, costs_budget, current_run_id, current_run_cost, ledger, now, tz,
                   next_run>>

(***************************************************************************)
(* call_model, lines 129-189: a 2xx reply.  The cost is computed from the  *)
(* reported usage and tracked (track_api_call: insert the row, then add    *)
(* to the run cost); then the content is extracted and the response        *)
(* built.  store_ok = FALSE: the insert raises.  well_formed = FALSE: the  *)
(* reply's content makes the extraction or OpenRouterResponse raise.       *)
(***************************************************************************)
\* the pre-call estimate in place of the realized cost
RealizedCostFromEstimate(frame, usage) == frame.estimated_cost

\* lines 135-140: the cost of the reported usage under the frame's model
RealizedCost(frame, usage) ==
    CalculateCost(frame.model, PromptTokens(usage), CompletionTokens(usage))

\* the row tagged with the primary model whichever model served
TrackedEntryPrimary(frame, usage) ==
    CostEntry(current_run_id, MODELS.primary, PromptTokens(usage),
              CompletionTokens(usage),
              CalculateCost(MODELS.primary, PromptTokens(usage),
                            CompletionTokens(usage)), now)

\* track_api_call, lines 152-162: the CostEntry of the call
TrackedEntry(frame, usage) ==
    CostEntry(current_run_id, frame.model, PromptTokens(usage),
              CompletionTokens(usage), RealizedCost(frame, usage), now)

\* the cost added to the run before the row is inserted
ProviderReplyAccruesFirst(c, usage, store_ok, well_formed) ==
    /\ call[c].pc = "inflight"
    /\ usage \in Replies(call[c].req)
    /\ LET entry == TrackedEntry(call[c], usage)
       IN /\ current_run_cost' = current_run_cost + entry.cost
          /\ IF ~store_ok
             THEN /\ call' = [call EXCEPT
                              ![c] = Raised(call[c], [type |-> "sqlite3.Error"])]
                  /\ UNCHANGED ledger
             ELSE /\ ledger' = Append(ledger, entry)
                  /\ IF well_formed
                     THEN call' = [call EXCEPT
                              ![c].pc = "returned",
                              ![c].recorded = @ + 1,
                              ![c].response =
                                  [model |-> call[c].model,
                                   cost |-> RealizedCost(call[c], usage),
                                   input_tokens |-> PromptTokens(usage),
                                   output_tokens |-> CompletionTokens(usage)]]
                     ELSE call' = [call EXCEPT
                              ![c] = Raised([call[c] EXCEPT !.recorded = @ + 1],
                                            [type |-> "Exception"])]
    /\ ret' = NoReturn
    /\ UNCHANGED <<workflows, budget, costs_budget, current_run_id, now, tz, next_run,
                   ncalls>>

\* the table rewritten from the rows the caller read at admission, plus its row
ProviderReplyOnSnapshot(c, usage, store_ok, well_formed) ==
    /\ call[c].pc = "inflight"
    /\ usage \in Replies(call[c].req)
    /\ LET entry == TrackedEntry(call[c], usage)
       IN IF ~store_ok
          THEN /\ call' = [call EXCEPT
                           ![c] = Raised(call[c], [type |-> "sqlite3.Error"])]
               /\ UNCHANGED <<ledger, current_run_cost>>
          ELSE /\ ledger' = Append(SubSeq(ledger, 1, call[c].admitted.rows), entry)
               /\ current_run_cost' = current_run_cost + entry.cost
               /\ IF well_formed
                  THEN call' = [call EXCEPT
                           ![c].pc = "returned",
                           ![c].recorded = @ + 1,
                           ![c].response =
                               [model |-> call[c].model,
                                cost |-> RealizedCost(call[c], usage),
                                input_tokens |-> PromptTokens(usage),
                                output_tokens |-> CompletionTokens(usage)]]
                  ELSE call' = [call EXCEPT
                           ![c] = Raised([call[c] EXCEPT !.recorded = @ + 1],
                                         [type |-> "Exception"])]
    /\ ret' = NoReturn
    /\ UNCHANGED <<workflows, budget, costs_budget, current_run_id, now, tz, next_run,
                   ncalls>>

ProviderReply(c, usage, store_ok, well_formed) ==
    /\ call[c].pc = "inflight"
    /\ usage \in Replies(call[c].req)
    /\ LET entry == TrackedEntry(call[c], usage)
       IN IF ~store_ok
          THEN /\ call' = [call EXCEPT
                           ![c] = Raised(call[c], [type |-> "sqlite3.Error"])]
               /\ UNCHANGED <<ledger, current_run_cost>>
          ELSE /\ ledger' = Append(ledger, entry)
               /\ current_run_cost' = current_run_cost + entry.cost
               /\ IF well_formed
                  THEN call' = [call EXCEPT
                           ![c].pc = "returned",
                           ![c].recorded = @ + 1,
                           ![c].response =
                               [model |-> call[c].model,
                                cost |-> RealizedCost(call[c], usage),
                                input_tokens |-> PromptTokens(usage),
                                output_tokens |-> CompletionTokens(usage)]]
                  ELSE call' = [call EXCEPT
                           ![c] = Raised([call[c] EXCEPT !.recorded = @ + 1],
                                         [type |-> "Exception"])]
    /\ ret' = NoReturn
    /\ UNCHANGED <<workflows, budget, costs_budget, current_run_id, now, tz, next_run, ncalls>>

(***************************************************************************)
(* call_model, lines 191-204: httpx.HTTPError (transport failure, timeout, *)
(* non-2xx status).  The primary model is retried on the fallback model    *)
(* by a recursive call_model; any other model re-raises.                   *)
(***************************************************************************)
\* every failed model retried on the fallback
ShouldFallbackAlways(model) == TRUE

ShouldFallback(model) ==
    model = MODELS.primary /\ model # MODELS.fallback

ProviderError(c, read_ok) ==
    /\ call[c].pc = "inflight"
    /\ IF ShouldFallback(call[c].model)
       THEN call' = [call EXCEPT ![c] = Enter(call[c], MODELS.fallback, read_ok)]
       ELSE call' = [call EXCEPT
                ![c] = Raised(call[c], [type |-> "httpx.HTTPError"])]
    /\ ret' = NoReturn
    /\ UNCHANGED <<workflows, budget, costs_budget, current_run_id, current_run_cost, ledger, now, tz,
                   next_run, ncalls>>

(***************************************************************************)
(* CostTracker.start_run(run_id), with run_id a fresh uuid4.               *)
(***************************************************************************)
\* can_continue alone, without the check of the remaining monthly budget
StartRunAdmitsNoRemaining(status) == status.can_continue

StartRunAdmits(status) ==
    /\ status.can_continue
    /\ ~(status.monthly_remaining < budget.per_run_soft_cap)

\* the run cost reset whether or not the run is admitted
StartRunResetsFirst(read_ok) ==
    /\ next_run < MaxRuns
    /\ next_run' = next_run + 1
    /\ current_run_cost' = 0
    /\ LET run_id == next_run + 1
           status == GetBudgetStatus(read_ok)
       IN IF StartRunAdmits(status)
          THEN /\ current_run_id' = run_id
               /\ ret' = [op |-> "start_run", run_id |-> run_id, result |-> TRUE]
          ELSE /\ UNCHANGED current_run_id
               /\ ret' = [op |-> "start_run", run_id |-> run_id, result |-> FALSE]
    /\ UNCHANGED <<workflows, budget, costs_budget, ledger, call, now, tz, ncalls>>

StartRun(read_ok) ==
    /\ next_run < MaxRuns
    /\ next_run' = next_run + 1
    /\ LET run_id == next_run + 1
           status == GetBudgetStatus(read_ok)
       IN IF StatusRaises(budget)
          THEN /\ UNCHANGED <<current_run_id, current_run_cost>>
               /\ ret' = [op |-> "start_run", run_id |-> run_id,
                          error |-> ZeroDivision]
          ELSE IF StartRunAdmits(status)
               THEN /\ current_run_id' = run_id
                    /\ current_run_cost' = 0
                    /\ ret' = [op |-> "start_run", run_id |-> run_id,
                               result |-> TRUE]
               ELSE /\ UNCHANGED <<current_run_id, current_run_cost>>
                    /\ ret' = [op |-> "start_run", run_id |-> run_id,
                               result |-> FALSE]
    /\ UNCHANGED <<workflows, budget, costs_budget, ledger, call, now, tz, ncalls>>

(***************************************************************************)
(* CostTracker.end_run.                                                    *)
(***************************************************************************)
\* the run identity cleared, the accrued cost kept
EndRunKeepsCost(read_ok) ==
    /\ IF current_run_id = NoRun
       THEN /\ ret' = [op |-> "end_run", error |-> "No active run"]
            /\ UNCHANGED current_run_id
       ELSE /\ LET status == GetBudgetStatus(read_ok)
               IN ret' = [op |-> "end_run", run_id |-> current_run_id,
                          total_cost |-> current_run_cost,
                          monthly_usage |-> status.monthly_usage,
                          monthly_remaining |-> status.monthly_remaining,
                          warnings |-> status.warnings]
            /\ current_run_id' = NoRun
    /\ UNCHANGED <<workflows, budget, costs_budget, current_run_cost, ledger, call, now, tz,
                   next_run, ncalls>>

\* the method itself: what it returns and what it does to the tracker
end_run(read_ok) ==
    IF current_run_id = NoRun
    THEN /\ ret' = [op |-> "end_run", error |-> "No active run"]
         /\ UNCHANGED <<current_run_id, current_run_cost>>
    ELSE IF StatusRaises(budget)
    THEN /\ ret' = [op |-> "end_run", error |-> "ZeroDivisionError"]
         /\ UNCHANGED <<current_run_id, current_run_cost>>
    ELSE /\ LET status == GetBudgetStatus(read_ok)
            IN ret' = [op |-> "end_run", run_id |-> current_run_id,
                       total_cost |-> current_run_cost,
                       monthly_usage |-> status.monthly_usage,
                       monthly_remaining |-> status.monthly_remaining,
                       warnings |-> status.warnings]
         /\ current_run_id' = NoRun
         /\ current_run_cost' = 0

EndRun(read_ok) ==
    /\ end_run(read_ok)
    /\ UNCHANGED <<workflows, budget, costs_budget, ledger, call, now, tz, next_run, ncalls>>

\* time passes
Tick ==
    /\ now < StartTick + MaxTicks
    /\ now' = now + 1
    /\ ret' = NoReturn
    /\ UNCHANGED <<workflows, budget, costs_budget, current_run_id, current_run_cost, ledger, call, tz,
                   next_run, ncalls>>

(***************************************************************************)
(* routes/costs.py: POST /costs/budget, update_budget_config, on the cost  *)
(* routes' tracker.  A request carries any subset of the five fields; a    *)
(* field that is absent (None) or 0 is falsy and keeps the current value.  *)
(***************************************************************************)
BudgetFields ==
    {"monthly_hard_cap", "monthly_soft_cap", "per_run_soft_cap",
     "per_run_hard_cap", "daily_soft_cap"}

\* values a request may carry for a field: Optional[float], of either sign
RequestValues(field) ==
    CASE field = "monthly_hard_cap" -> {0, 14 * Dollar}
      [] field = "monthly_soft_cap" -> {12 * Dollar, 25 * Dollar}
      [] field = "per_run_soft_cap" -> {1 * Dollar, 4 * Dollar}
      [] field = "per_run_hard_cap" -> {2 * Dollar}
      [] field = "daily_soft_cap" -> {3 * Dollar, -1 * Dollar}

BudgetConfigRequests ==
    UNION {{config \in [fields -> UNION {RequestValues(f) : f \in BudgetFields}] :
               \A f \in fields : config[f] \in RequestValues(f)} :
           fields \in SUBSET BudgetFields}

\* config.<field> or current_budget.<field>
FieldOr(config, field, current_budget) ==
    IF field \in DOMAIN config /\ config[field] # 0
    THEN config[field] ELSE current_budget[field]

MergedBudget(config, current_budget) ==
    [field \in BudgetFields |-> FieldOr(config, field, current_budget)]

\* the monthly pair checked alone
BudgetConfigValidMonthlyOnly(new_budget) ==
    ~(new_budget.monthly_soft_cap > new_budget.monthly_hard_cap)

\* lines 231-241: neither HTTPException(400) is raised
BudgetConfigValid(new_budget) ==
    /\ ~(new_budget.monthly_soft_cap > new_budget.monthly_hard_cap)
    /\ ~(new_budget.per_run_soft_cap > new_budget.per_run_hard_cap)

\* the 400 raised inside the try is caught by `except Exception' and
\* re-raised as a 500
UpdateBudgetConfig(config) ==
    /\ LET new_budget == MergedBudget(config, costs_budget)
       IN IF BudgetConfigValid(new_budget)
          THEN /\ costs_budget' = new_budget
               /\ ret' = [op |-> "update_budget_config", config |-> config,
                          status_code |-> 200, budget |-> new_budget]
          ELSE /\ UNCHANGED costs_budget
               /\ ret' = [op |-> "update_budget_config", config |-> config,
                          status_code |-> 500]
    /\ UNCHANGED <<workflows, budget, current_run_id, current_run_cost, ledger, call, now,
                   tz, next_run, ncalls>>

(***************************************************************************)
(* The routes that read the budget status: GET /costs/status on the cost   *)
(* routes' tracker, GET /run/{run_id} on the gateway's.  The two trackers  *)
(* open the same database file; the cost routes' tracker never starts a    *)
(* run and never tracks a call, so its run cost stays 0.0.                 *)
(***************************************************************************)
Trackers == {"research", "costs"}
BudgetOf(tracker) == IF tracker = "research" THEN budget ELSE costs_budget
RunCostOf(tracker) == IF tracker = "research" THEN current_run_cost ELSE 0

ReadStatus(tracker, read_ok) ==
    /\ ret' = IF StatusRaises(BudgetOf(tracker))
              THEN [op |-> "get_budget_status", tracker |-> tracker,
                    error |-> ZeroDivision]
              ELSE [op |-> "get_budget_status", tracker |-> tracker,
                    status |-> BudgetStatusOf(BudgetOf(tracker),
                                              RunCostOf(tracker), read_ok)]
    /\ UNCHANGED <<workflows, budget, costs_budget, current_run_id, current_run_cost,
                   ledger, call, now, tz, next_run, ncalls>>

(***************************************************************************)
(* routes/research.py, on the gateway's tracker.  Each handler runs to its *)
(* return without suspending; the background workflow suspends in its      *)
(* sleeps, and its last step, on success and on failure alike, is          *)
(* cost_tracker.end_run().                                                 *)
(***************************************************************************)
RunIds == 1 .. MaxRuns

\* POST /run, start_research_run.  agent_found = FALSE: no active research agent.
StartResearchRun(agent_found, read_ok, start_read_ok) ==
    /\ next_run < MaxRuns
    /\ IF StatusRaises(budget)
       THEN /\ ret' = [op |-> "start_research_run", status_code |-> 500]
            /\ UNCHANGED <<next_run, current_run_id, current_run_cost, workflows>>
       ELSE IF ~GetBudgetStatus(read_ok).can_continue
       THEN /\ ret' = [op |-> "start_research_run", status_code |-> 402]
            /\ UNCHANGED <<next_run, current_run_id, current_run_cost, workflows>>
       ELSE LET run_id == next_run + 1
            IN /\ next_run' = run_id
               /\ IF ~StartRunAdmits(GetBudgetStatus(start_read_ok))
                  THEN /\ ret' = [op |-> "start_research_run",
                                  status_code |-> 402]
                       /\ UNCHANGED <<current_run_id, current_run_cost, workflows>>
                  ELSE /\ current_run_id' = run_id
                       /\ current_run_cost' = 0
                       /\ IF agent_found
                          THEN /\ workflows' = workflows @@ (run_id :> "pending")
                               /\ ret' = [op |-> "start_research_run",
                                          status_code |-> 200, run_id |-> run_id]
                          ELSE /\ UNCHANGED workflows
                               /\ ret' = [op |-> "start_research_run",
                                          status_code |-> 500]
    /\ UNCHANGED <<budget, costs_budget, ledger, call, now, tz, ncalls>>

\* DELETE /run/{run_id}, cancel_research_run: the record is marked, the tracker is not told
CancelResearchRun(run_id) ==
    /\ run_id \in DOMAIN workflows
    /\ workflows[run_id] = "pending"
    /\ workflows' = [workflows EXCEPT ![run_id] = "cancelled"]
    /\ ret' = [op |-> "cancel_research_run", run_id |-> run_id]
    /\ UNCHANGED <<budget, costs_budget, current_run_id, current_run_cost, ledger,
                   call, now, tz, next_run, ncalls>>

\* execute_research_workflow reaches its end: completed or failed
WorkflowEnds(run_id, read_ok) ==
    /\ run_id \in DOMAIN workflows
    /\ workflows' = [id \in DOMAIN workflows \ {run_id} |-> workflows[id]]
    /\ end_run(read_ok)
    /\ UNCHANGED <<budget, costs_budget, ledger, call, now, tz, next_run, ncalls>>

(***************************************************************************)
(* Spec: one client of the gateway, calling again and again, with the run  *)
(* bookkeeping and the clock running beside it.                            *)
(***************************************************************************)
Next ==
    \/ \E req \in Requests, m \in RequestedModels, r \in BOOLEAN :
           CallModel("c1", req, m, r)
    \/ \E u \in UsageData \cup {NoUsage}, s, w \in BOOLEAN :
           ProviderReply("c1", u, s, w)
    \/ \E r \in BOOLEAN : ProviderError("c1", r)
    \/ \E r \in BOOLEAN : StartRun(r)
    \/ \E r \in BOOLEAN : EndRun(r)
    \/ Tick

Spec == Init /\ [][Next]_vars

(***************************************************************************)
(* FairSpec: Spec with the provider round trip completing.  The request    *)
(* is posted with timeout=60.0 (line 102), so the await ends with a reply  *)
(* or with an httpx.HTTPError.                                             *)
(***************************************************************************)
RoundTrip(c) ==
    \/ \E u \in UsageData \cup {NoUsage}, s, w \in BOOLEAN :
           ProviderReply(c, u, s, w)
    \/ \E r \in BOOLEAN : ProviderError(c, r)

FairSpec == Spec /\ WF_vars(RoundTrip("c1"))

(***************************************************************************)
(* RaceSpec: two clients of the gateway on the same event loop; their      *)
(* call_model invocations interleave at the provider round trip.           *)
(***************************************************************************)
RaceNext ==
    \/ \E c \in Callers, req \in Requests, m \in RequestedModels, r \in BOOLEAN :
           CallModel(c, req, m, r)
    \/ \E c \in Callers, u \in UsageData \cup {NoUsage}, s, w \in BOOLEAN :
           ProviderReply(c, u, s, w)
    \/ \E c \in Callers, r \in BOOLEAN : ProviderError(c, r)
    \/ Tick

RaceSpec == Init /\ [][RaceNext]_vars

(***************************************************************************)
(* PolicySpec: requests to POST /costs/budget, one after another.          *)
(***************************************************************************)
PolicyNext ==
    \E config \in BudgetConfigRequests : UpdateBudgetConfig(config)

PolicyInit == Init /\ ledger = <<>> /\ tz = 0

PolicySpec == PolicyInit /\ [][PolicyNext]_vars

(***************************************************************************)
(* RouteSpec: the research routes drive the run bookkeeping, beside one    *)
(* client of the gateway, whose reads and inserts succeed, and the clock.  *)
(* A scheduled workflow runs to its end: its sleeps are finite and both of *)
(* its paths call end_run.                                                 *)
(***************************************************************************)
WorkflowCompletes ==
    \E run_id \in RunIds, r \in BOOLEAN : WorkflowEnds(run_id, r)

RouteNext ==
    \/ \E a, r, sr \in BOOLEAN : StartResearchRun(a, r, sr)
    \/ \E run_id \in RunIds : CancelResearchRun(run_id)
    \/ WorkflowCompletes
    \/ \E req \in Requests, m \in RequestedModels : CallModel("c1", req, m, TRUE)
    \/ \E u \in UsageData \cup {NoUsage}, w \in BOOLEAN :
           ProviderReply("c1", u, TRUE, w)
    \/ ProviderError("c1", TRUE)
    \/ Tick

RouteSpec == Init /\ [][RouteNext]_vars /\ WF_vars(WorkflowCompletes)

(***************************************************************************)
(* LedgerSpec: everything that touches the process at once.  Two callers   *)
(* of the gateway, the run bookkeeping, budget updates and the clock, from *)
(* a construction that finds a row on file; reads succeed.                 *)
(***************************************************************************)
LedgerRequests ==
    {[monthly_hard_cap |-> 14 * Dollar, monthly_soft_cap |-> 12 * Dollar],
     [per_run_soft_cap |-> 4 * Dollar]}

LedgerNext ==
    \/ \E c \in Callers, req \in Requests, m \in RequestedModels :
           CallModel(c, req, m, TRUE)
    \/ \E c \in Callers, u \in UsageData, s \in BOOLEAN :
           ProviderReply(c, u, s, TRUE)
    \/ \E c \in Callers : ProviderError(c, TRUE)
    \/ StartRun(TRUE)
    \/ EndRun(TRUE)
    \/ \E config \in LedgerRequests : UpdateBudgetConfig(config)
    \/ Tick

LedgerInit == Init /\ ledger = SpentYesterday

LedgerSpec == LedgerInit /\ [][LedgerNext]_vars

(***************************************************************************)
(* PricingSpec: one client of the gateway asking for models in and out of  *)
(* MODEL_PRICING; reads and inserts succeed.                               *)
(***************************************************************************)
PricingModels == {None, Unlisted, MODELS.free}

PricingNext ==
    \/ \E req \in Requests, m \in PricingModels : CallModel("c1", req, m, TRUE)
    \/ \E u \in UsageData \cup {NoUsage}, w \in BOOLEAN :
           ProviderReply("c1", u, TRUE, w)
    \/ ProviderError("c1", TRUE)
    \/ Tick

PricingSpec == Init /\ [][PricingNext]_vars

(***************************************************************************)
(* StatusSpec: the budget status read on either tracker, beside budget     *)
(* updates, one client of the gateway, start_run and the clock.  One       *)
(* construction passes a budget whose monthly caps are 0.                  *)
(***************************************************************************)
ZeroMonthlyBudget ==
    BudgetConfig(0, 0, 150 * Cent, 3 * Dollar, 2 * Dollar)

StatusRequests ==
    {[monthly_hard_cap |-> -5 * Dollar, monthly_soft_cap |-> -10 * Dollar],
     [daily_soft_cap |-> 3 * Dollar]}

StatusInit ==
    /\ \E k \in Constructions \cup {<<ZeroMonthlyBudget, <<>>, 0>>} :
           budget = k[1] /\ ledger = k[2] /\ tz = k[3]
    /\ costs_budget = DefaultBudget
    /\ current_run_id = NoRun
    /\ current_run_cost = 0
    /\ call = [c \in Callers |-> IdleFrame]
    /\ now = StartTick
    /\ next_run = 0
    /\ ncalls = 0
    /\ workflows = <<>>
    /\ ret = NoReturn

StatusNext ==
    \/ \E tracker \in Trackers, r \in BOOLEAN : ReadStatus(tracker, r)
    \/ \E config \in StatusRequests : UpdateBudgetConfig(config)
    \/ \E req \in Requests, m \in RequestedModels : CallModel("c1", req, m, TRUE)
    \/ \E u \in UsageData : ProviderReply("c1", u, TRUE, TRUE)
    \/ ProviderError("c1", TRUE)
    \/ StartRun(TRUE)
    \/ Tick

StatusSpec == StatusInit /\ [][StatusNext]_vars

(***************************************************************************)
(* SequentialSpec: one client of the gateway, one invocation at a time,    *)
(* with the run bookkeeping; the clock stands still and every reply        *)
(* reports a usage whose cost is at most the estimate made on entry.  The  *)
(* database file holds $2.9997 spent earlier on the day.                   *)
(***************************************************************************)
SpentTodayNearLimit ==
    <<CostEntry(NoRun, Sonnet, 0, 199980,
                CalculateCost(Sonnet, 0, 199980), StartTick)>>

SequentialInit ==
    /\ budget = DefaultBudget
    /\ ledger \in {<<>>, SpentTodayNearLimit}
    /\ tz \in {-1, 0, 1}
    /\ costs_budget = DefaultBudget
    /\ current_run_id = NoRun
    /\ current_run_cost = 0
    /\ call = [c \in Callers |-> IdleFrame]
    /\ now = StartTick
    /\ next_run = 0
    /\ ncalls = 0
    /\ workflows = <<>>
    /\ ret = NoReturn

SequentialNext ==
    \/ \E req \in Requests, m \in RequestedModels, r \in BOOLEAN :
           CallModel("c1", req, m, r)
    \/ \E u \in UsageData \cup {NoUsage}, s, w \in BOOLEAN :
           /\ RealizedCost(call["c1"], u) <= call["c1"].estimated_cost
           /\ ProviderReply("c1", u, s, w)
    \/ \E r \in BOOLEAN : ProviderError("c1", r)
    \/ \E r \in BOOLEAN : StartRun(r)
    \/ \E r \in BOOLEAN : EndRun(r)

SequentialSpec == SequentialInit /\ [][SequentialNext]_vars

(***************************************************************************)
(*                              Properties                                 *)
(***************************************************************************)
\* the usage read by get_budget_status in the current state
MonthlyUsage(read_ok) == GetBudgetStatus(read_ok).monthly_usage
DailyUsage(read_ok) == GetBudgetStatus(read_ok).daily_usage

\* the frame of an invocation that ended with the budget error
BudgetDenied(frame) ==
    frame.pc = "raised" /\ frame.error.type = "ValueError"

(***************************************************************************)
(* C1.  Whenever the monthly usage u that the admission check reads plus   *)
(* the estimated cost e exceeds monthly_hard_cap, call_model makes no      *)
(* provider request and raises the budget error: on entry (CallModel) and  *)
(* on the recursive entry for the fallback model (ProviderError).  Nothing *)
(* is assumed about the soft caps, the daily usage or the run cost.        *)
(***************************************************************************)
C1_MonthlyHardCapDenies ==
    [][\A c \in Callers, r \in BOOLEAN :
          /\ \A req \in Requests, m \in RequestedModels :
                 (/\ CallModel(c, req, m, r)
                  /\ MonthlyUsage(r) + EstimateCallCost(req, ModelOrPrimary(m))
                         > budget.monthly_hard_cap)
                 => (BudgetDenied(call'[c]) /\ call'[c].attempts = 0)
          /\ (/\ ProviderError(c, r)
              /\ ShouldFallback(call[c].model)
              /\ MonthlyUsage(r) + EstimateCallCost(call[c].req, MODELS.fallback)
                     > budget.monthly_hard_cap)
             => (BudgetDenied(call'[c]) /\ call'[c].attempts = call[c].attempts)
      ]_vars

\* a call was denied on the monthly cap alone: the run cap and the daily
\* allowance would both have let it pass, and the monthly soft cap is exceeded
C1_Witness ==
    \E c \in Callers :
        /\ BudgetDenied(call[c])
        /\ MonthlyUsage(TRUE) + call[c].error.estimated_cost > budget.monthly_hard_cap
        /\ MonthlyUsage(TRUE) > budget.monthly_soft_cap
        /\ ~(current_run_cost + call[c].error.estimated_cost > budget.per_run_hard_cap)
        /\ ~AboveOneAndHalf(DailyUsage(TRUE) + call[c].error.estimated_cost,
                            budget.daily_soft_cap)

(***************************************************************************)
(* C2.  A start_run made while a run is active fails: it returns False,    *)
(* the active run stays the same and its accrued cost is untouched.        *)
(* The source overwrites the active run instead.                           *)
(***************************************************************************)
C2_SecondStartFails ==
    [][\A r \in BOOLEAN :
          (StartRun(r) /\ current_run_id # NoRun)
          => /\ ret'.result = FALSE
             /\ current_run_id' = current_run_id
             /\ current_run_cost' = current_run_cost
      ]_vars

(***************************************************************************)
(* C3.  A reply whose cost is tracked appends one row whose token counts   *)
(* are the ones the provider reported and whose cost is their price in     *)
(* MODEL_PRICING under the model that was asked; the run cost grows by     *)
(* that amount and the response reports it.  The estimate plays no part.   *)
(***************************************************************************)
PriceOf(model, input_tokens, output_tokens) ==
    input_tokens * MODEL_PRICING[model].input
        + output_tokens * MODEL_PRICING[model].output

C3_RealizedCostRecorded ==
    [][\A c \in Callers, u \in UsageData \cup {NoUsage}, w \in BOOLEAN :
          ProviderReply(c, u, TRUE, w)
          => LET row == ledger'[Len(ledger')]
                 realized == PriceOf(call[c].model, PromptTokens(u),
                                     CompletionTokens(u))
             IN /\ Len(ledger') = Len(ledger) + 1
                /\ row.input_tokens = PromptTokens(u)
                /\ row.output_tokens = CompletionTokens(u)
                /\ row.cost = realized
                /\ current_run_cost' = current_run_cost + realized
                /\ w => call'[c].response.cost = realized
      ]_vars

\* a returned call, made inside a run, whose realized cost is not the estimate
C3_Witness ==
    /\ call["c1"].pc = "returned"
    /\ call["c1"].response.cost # call["c1"].estimated_cost
    /\ call["c1"].response.cost > 0
    /\ current_run_id # NoRun
    /\ ledger # <<>>
    /\ ledger[Len(ledger)].cost = call["c1"].response.cost
    /\ ledger[Len(ledger)].run_id = current_run_id
    /\ current_run_cost >= call["c1"].response.cost

(***************************************************************************)
(* C4, as stated: a failure of the primary model is always followed by     *)
(* one further attempt, on the fallback model.                             *)
(***************************************************************************)
C4_FailedPrimaryRetriedOnce ==
    [][\A c \in Callers, r \in BOOLEAN :
          (ProviderError(c, r) /\ call[c].model = MODELS.primary)
          => /\ call'[c].pc = "inflight"
             /\ call'[c].model = MODELS.fallback
             /\ call'[c].attempts = call[c].attempts + 1
      ]_vars

(***************************************************************************)
(* C4, as the source has it.  An invocation makes at most two provider     *)
(* attempts.  A failure of the primary model leads to one more entry of    *)
(* call_model, for the fallback model, which has its own admission check:  *)
(* one further attempt if admitted, the budget error and no further        *)
(* attempt if denied.  A failure of any other model, the fallback          *)
(* included, raises with no further attempt.  Every invocation in flight   *)
(* ends: it returns or it raises.                                          *)
(***************************************************************************)
C4_AtMostTwoAttempts ==
    /\ [](\A c \in Callers : call[c].attempts <= 2)
    /\ [][\A c \in Callers, r \in BOOLEAN :
             ProviderError(c, r)
             => IF call[c].model = MODELS.primary
                THEN /\ call[c].attempts = 1
                     /\ \/ /\ call'[c].pc = "inflight"
                           /\ call'[c].model = MODELS.fallback
                           /\ call'[c].attempts = 2
                        \/ /\ BudgetDenied(call'[c])
                           /\ call'[c].attempts = 1
                ELSE /\ call'[c].pc = "raised"
                     /\ call'[c].error.type = "httpx.HTTPError"
                     /\ call'[c].attempts = call[c].attempts
       ]_vars
    /\ \A c \in {"c1"} :
          (call[c].pc = "inflight") ~> (call[c].pc \in {"returned", "raised"})

\* the fallback attempt failed too and the error reached the caller
C4_Witness ==
    /\ call["c1"].pc = "raised"
    /\ call["c1"].error.type = "httpx.HTTPError"
    /\ call["c1"].attempts = 2

(***************************************************************************)
(* C5.  A request to update the budget whose merged configuration has a    *)
(* soft cap above its hard cap is answered with an error and leaves all    *)
(* five fields of the tracker's budget as they were.                       *)
(***************************************************************************)
SoftAboveHard(b) ==
    \/ b.monthly_soft_cap > b.monthly_hard_cap
    \/ b.per_run_soft_cap > b.per_run_hard_cap

C5_InvalidUpdateRejected ==
    [][\A config \in BudgetConfigRequests :
          (UpdateBudgetConfig(config)
           /\ SoftAboveHard(MergedBudget(config, costs_budget)))
          => /\ ret'.status_code >= 400
             /\ \A f \in BudgetFields : costs_budget'[f] = costs_budget[f]
      ]_vars

\* a rejected request that did carry fields differing from the budget in force
C5_Witness ==
    /\ ret.op = "update_budget_config"
    /\ ret.status_code >= 400
    /\ SoftAboveHard(MergedBudget(ret.config, costs_budget))
    /\ \E f \in DOMAIN ret.config :
          ret.config[f] # 0 /\ ret.config[f] # costs_budget[f]
    /\ costs_budget # DefaultBudget

(***************************************************************************)
(* C6.  Two invocations are interleaved when both were admitted on the     *)
(* same rows of the ledger and both have since recorded their row.  The    *)
(* claim as stated: the monthly usage then exceeds monthly_hard_cap by at  *)
(* most the two estimated costs.                                           *)
(***************************************************************************)
Interleaved ==
    /\ \A c \in Callers :
          /\ call[c].pc = "returned"
          /\ call[c].admitted.read_ok
          /\ call[c].admitted.rows = Len(ledger) - 2

Larger(a, b) == IF a >= b THEN a ELSE b

C7_OneEntryForServingModel ==
    /\ [](\A c \in Callers :
             call[c].pc = "returned"
             => call[c].recorded = 1 /\ call[c].attempts \in {1, 2})
    /\ [][\A c \in Callers :
             /\ \A u \in UsageData \cup {NoUsage} :
                    ProviderReply(c, u, TRUE, TRUE)
                    => LET row == ledger'[Len(ledger')]
                       IN /\ Len(ledger') = Len(ledger) + 1
                          /\ row.model_name = call'[c].response.model
                          /\ row.model_name = call[c].model
                          /\ call[c].attempts = 2
                                 => row.model_name = MODELS.fallback
                          /\ row.cost = PriceOf(row.model_name, row.input_tokens,
                                                row.output_tokens)
             /\ \A r \in BOOLEAN :
                    ProviderError(c, r)
                    => ledger' = ledger /\ call'[c].recorded = call[c].recorded
       ]_vars

\* the primary failed and the fallback served usage {50, 20}: one row, 390 units
C7_Witness ==
    /\ call["c1"].pc = "returned"
    /\ call["c1"].attempts = 2
    /\ Len(ledger) = call["c1"].admitted.rows + 1
    /\ ledger[Len(ledger)].model_name = MODELS.fallback
    /\ ledger[Len(ledger)].input_tokens = 50
    /\ ledger[Len(ledger)].output_tokens = 20
    /\ ledger[Len(ledger)].cost = 390

(***************************************************************************)
(* C8.  An entry of call_model, for the requested model or for the         *)
(* fallback model, goes on to the provider exactly when the estimate fits  *)
(* under the monthly hard cap, the per-run hard cap and one and a half     *)
(* times the daily soft cap; otherwise it raises the budget error.  Soft   *)
(* caps and warnings have no say.                                          *)
(***************************************************************************)
Fits(read_ok, e) ==
    /\ MonthlyUsage(read_ok) + e <= budget.monthly_hard_cap
    /\ current_run_cost + e <= budget.per_run_hard_cap
    /\ 2 * (DailyUsage(read_ok) + e) <= 3 * budget.daily_soft_cap

C8_AdmittedIffHardCapsHold ==
    [][\A c \in Callers, r \in BOOLEAN :
          /\ \A req \in Requests, m \in RequestedModels :
                 CallModel(c, req, m, r)
                 => IF Fits(r, EstimateCallCost(req, ModelOrPrimary(m)))
                    THEN call'[c].pc = "inflight"
                    ELSE BudgetDenied(call'[c])
          /\ (ProviderError(c, r) /\ call[c].model = MODELS.primary)
             => IF Fits(r, EstimateCallCost(call[c].req, MODELS.fallback))
                THEN call'[c].pc = "inflight"
                ELSE BudgetDenied(call'[c])
      ]_vars

\* admitted although the daily soft cap is exceeded and warnings are active
C8_Witness ==
    /\ call["c1"].pc = "inflight"
    /\ call["c1"].admitted.read_ok
    /\ call["c1"].admitted.rows = Len(ledger)
    /\ DailyUsage(TRUE) + call["c1"].estimated_cost > budget.daily_soft_cap
    /\ "Daily usage exceeded" \in GetBudgetStatus(TRUE).warnings

(***************************************************************************)
(* C9.  A step of call_model that ends in the budget error posts nothing   *)
(* to the provider, inserts no row and leaves current_run_id and           *)
(* current_run_cost as they were: at the first entry no attempt has been   *)
(* made, at the entry for the fallback model no attempt is added.          *)
(***************************************************************************)
DenialFrame ==
    /\ ledger' = ledger
    /\ current_run_id' = current_run_id
    /\ current_run_cost' = current_run_cost

C9_DenialHasNoEffect ==
    [][\A c \in Callers, r \in BOOLEAN :
          /\ \A req \in Requests, m \in RequestedModels :
                 (CallModel(c, req, m, r) /\ BudgetDenied(call'[c]))
                 => /\ call'[c].attempts = 0
                    /\ call'[c].recorded = 0
                    /\ DenialFrame
          /\ (ProviderError(c, r) /\ BudgetDenied(call'[c]))
             => /\ call'[c].attempts = call[c].attempts
                /\ call'[c].recorded = call[c].recorded
                /\ DenialFrame
      ]_vars

\* denied at the first entry, inside a run that has accrued cost
C9_Witness ==
    /\ BudgetDenied(call["c1"])
    /\ call["c1"].attempts = 0
    /\ current_run_id # NoRun
    /\ current_run_cost > 0
    /\ ledger # <<>>

(***************************************************************************)
(* C10.  The budget error raised on a denial carries the warnings of the   *)
(* status the admission check evaluated.  The source raises a ValueError   *)
(* whose message holds the estimated cost alone.                           *)
(***************************************************************************)
C10_DenialCarriesWarnings ==
    [][\A c \in Callers, r \in BOOLEAN, req \in Requests, m \in RequestedModels :
          (CallModel(c, req, m, r) /\ BudgetDenied(call'[c]))
          => call'[c].error.warnings = GetBudgetStatus(r).warnings
      ]_vars

(***************************************************************************)
(* C11.  A reply whose cost c is recorded raises the monthly and the daily *)
(* usage that get_budget_status reads by exactly c, whatever the time of   *)
(* day and the offset of the local clock.  The source stamps the row with  *)
(* the UTC clock and starts both windows at local midnight.                *)
(***************************************************************************)
MonthlyUsageRead == MonthlyUsage(TRUE)
DailyUsageRead == DailyUsage(TRUE)

C11_RecordedCostIsCounted ==
    [][\A c \in Callers, u \in UsageData \cup {NoUsage}, w \in BOOLEAN :
          ProviderReply(c, u, TRUE, w)
          => LET cost == PriceOf(call[c].model, PromptTokens(u),
                                 CompletionTokens(u))
             IN /\ MonthlyUsageRead' = MonthlyUsageRead + cost
                /\ DailyUsageRead' = DailyUsageRead + cost
      ]_vars

(***************************************************************************)
(* C12.  While no run is active the accrued run cost is 0.  The source     *)
(* adds every recorded cost to current_run_cost, run or no run.            *)
(***************************************************************************)
C12_NoRunNoAccruedCost ==
    current_run_id = NoRun => current_run_cost = 0

(***************************************************************************)
(* C13.  end_run on an active run returns that run's id and its accrued    *)
(* cost and leaves no run active and the accrued cost 0; end_run with no   *)
(* active run returns an error and changes nothing.                        *)
(***************************************************************************)
C13_EndRunSummaryAndReset ==
    [][\A r \in BOOLEAN :
          EndRun(r)
          => IF current_run_id # NoRun
             THEN /\ ret'.op = "end_run"
                  /\ ret'.run_id = current_run_id
                  /\ ret'.total_cost = current_run_cost
                  /\ current_run_id' = NoRun
                  /\ current_run_cost' = 0
                  /\ UNCHANGED <<budget, ledger>>
             ELSE /\ "error" \in DOMAIN ret'
                  /\ UNCHANGED <<budget, current_run_id, current_run_cost, ledger>>
      ]_vars

\* a run that accrued cost has been ended
C13_Witness ==
    /\ ret.op = "end_run"
    /\ "total_cost" \in DOMAIN ret
    /\ ret.run_id # NoRun
    /\ ret.total_cost > 0
    /\ current_run_id = NoRun
    /\ current_run_cost = 0

(***************************************************************************)
(* C14.  A start_run that returns False leaves the active run, the accrued *)
(* cost, the budget and the ledger as they were.                           *)
(***************************************************************************)
C14_DeniedStartChangesNothing ==
    [][\A r \in BOOLEAN :
          (StartRun(r) /\ ret'.result = FALSE)
          => UNCHANGED <<current_run_id, current_run_cost, budget, ledger>>
      ]_vars

\* a start denied while an earlier run is active and has accrued cost
C14_Witness ==
    /\ ret.op = "start_run"
    /\ ret.result = FALSE
    /\ current_run_id # NoRun
    /\ current_run_id # ret.run_id
    /\ current_run_cost > 0

(***************************************************************************)
(* C15, as stated: start_run returns True exactly when the admission rule  *)
(* of can_make_call admits an estimate of per_run_soft_cap.                *)
(***************************************************************************)
C15_StartIffSoftCapAdmitted ==
    [][\A r \in BOOLEAN :
          StartRun(r)
          => (ret'.result = TRUE <=> Fits(r, budget.per_run_soft_cap))
      ]_vars

(***************************************************************************)
(* C15, as the source has it: start_run returns True exactly when the      *)
(* monthly usage is below monthly_hard_cap, the accrued run cost is below  *)
(* per_run_hard_cap, the daily usage is below one and a half times         *)
(* daily_soft_cap, and the monthly usage plus per_run_soft_cap is at most  *)
(* monthly_hard_cap.  per_run_soft_cap is added in the monthly check only. *)
(***************************************************************************)
C15_StartIffCanContinueAndRoom ==
    [][\A r \in BOOLEAN :
          StartRun(r)
          => (ret'.result = TRUE
              <=> /\ MonthlyUsage(r) < budget.monthly_hard_cap
                  /\ current_run_cost < budget.per_run_hard_cap
                  /\ 2 * DailyUsage(r) < 3 * budget.daily_soft_cap
                  /\ MonthlyUsage(r) + budget.per_run_soft_cap
                         <= budget.monthly_hard_cap)
      ]_vars

\* a run started although the daily usage plus per_run_soft_cap is over the limit
C15_Witness ==
    /\ ret.op = "start_run"
    /\ ret.result = TRUE
    /\ current_run_id = ret.run_id
    /\ 2 * (DailyUsageRead + budget.per_run_soft_cap) > 3 * budget.daily_soft_cap
    /\ MonthlyUsageRead + budget.per_run_soft_cap <= budget.monthly_hard_cap

(***************************************************************************)
(* C16.  A run that start_run admitted is eventually ended: the tracker    *)
(* comes back to no active run and accrued cost 0.  In the source a start  *)
(* request that fails after start_run succeeded schedules no workflow, and *)
(* nothing ends the run.                                                   *)
(***************************************************************************)
C16_StartedRunEventuallyEnded ==
    \A run_id \in RunIds :
        (current_run_id = run_id)
            ~> (current_run_id = NoRun /\ current_run_cost = 0)

(***************************************************************************)
(* C17.  A reply whose insert fails makes call_model raise the storage     *)
(* error: no further attempt is made, nothing is inserted and the accrued  *)
(* run cost stays as it was.                                               *)
(***************************************************************************)
C17_StoreFailureSurfaces ==
    [][\A c \in Callers, u \in UsageData \cup {NoUsage}, w \in BOOLEAN :
          ProviderReply(c, u, FALSE, w)
          => /\ call'[c].pc = "raised"
             /\ call'[c].error.type = "sqlite3.Error"
             /\ call'[c].attempts = call[c].attempts
             /\ call'[c].recorded = call[c].recorded
             /\ UNCHANGED <<ledger, current_run_id, current_run_cost>>
      ]_vars

\* the insert failed for a call made inside a run: nothing accrued, no row
C17_Witness ==
    /\ call["c1"].pc = "raised"
    /\ call["c1"].error.type = "sqlite3.Error"
    /\ call["c1"].attempts = 1
    /\ call["c1"].recorded = 0
    /\ current_run_id # NoRun
    /\ current_run_cost = 0
    /\ ledger = <<>>

(***************************************************************************)
(* C18.  A reply without usage data makes call_model raise and inserts no  *)
(* row.  The source reads the missing counts as 0, inserts a row of cost 0 *)
(* and returns the response.                                               *)
(***************************************************************************)
C18_MissingUsageFails ==
    [][\A c \in Callers, s, w \in BOOLEAN :
          ProviderReply(c, NoUsage, s, w)
          => call'[c].pc = "raised" /\ ledger' = ledger
      ]_vars

(***************************************************************************)
(* C19.  The ledger only grows, one row at a time, and the rows it holds   *)
(* never change: a reply whose insert succeeds appends exactly its row,    *)
(* and no other step touches the ledger, whatever the interleaving of two  *)
(* callers, start_run, end_run, budget updates and the clock.              *)
(***************************************************************************)
C19_LedgerAppendOnly ==
    [][/\ Len(ledger') \in {Len(ledger), Len(ledger) + 1}
       /\ SubSeq(ledger', 1, Len(ledger)) = ledger
       /\ \A c \in Callers, u \in UsageData \cup {NoUsage}, w \in BOOLEAN :
             ProviderReply(c, u, TRUE, w)
             => /\ Len(ledger') = Len(ledger) + 1
                /\ ledger'[Len(ledger')].input_tokens = PromptTokens(u)
                /\ ledger'[Len(ledger')].output_tokens = CompletionTokens(u)
                /\ call'[c].recorded = call[c].recorded + 1
       /\ ledger' # ledger
             => \E c \in Callers : call'[c].recorded = call[c].recorded + 1
      ]_vars

\* both callers were admitted on one row and both rows are there, under a
\* run that was started and a budget that was updated meanwhile
C19_Witness ==
    /\ \A c \in Callers :
          call[c].pc = "returned" /\ call[c].admitted.rows = 1
    /\ Len(ledger) = 3
    /\ ledger[1] = SpentYesterday[1]
    /\ current_run_id # NoRun
    /\ costs_budget # DefaultBudget

C21_UnlistedModelPricedAsDefault ==
    [][\A c \in Callers :
          /\ \A req \in Requests, m \in PricingModels \ {None} :
                (CallModel(c, req, m, TRUE) /\ m \notin DOMAIN MODEL_PRICING)
                => LET e == PriceOf(Sonnet, req.chars \div 4, req.max_tokens \div 2)
                   IN /\ (req.chars \div 4 > 0 \/ req.max_tokens \div 2 > 0) => e > 0
                      /\ IF BudgetDenied(call'[c])
                         THEN call'[c].error.estimated_cost = e
                         ELSE call'[c].estimated_cost = e
          /\ \A u \in UsageData \cup {NoUsage}, w \in BOOLEAN :
                (ProviderReply(c, u, TRUE, w)
                 /\ call[c].model \notin DOMAIN MODEL_PRICING)
                => LET realized == PriceOf(Sonnet, PromptTokens(u),
                                           CompletionTokens(u))
                   IN /\ (PromptTokens(u) > 0 \/ CompletionTokens(u) > 0)
                         => realized > 0
                      /\ ledger'[Len(ledger')].cost = realized
                      /\ current_run_cost' = current_run_cost + realized
                      /\ w => call'[c].response.cost = realized
      ]_vars

\* a call for the unlisted model returned; usage {50, 20} is priced as Sonnet's
C21_Witness ==
    /\ call["c1"].pc = "returned"
    /\ call["c1"].model = Unlisted
    /\ call["c1"].estimated_cost = EstimateCallCost(call["c1"].req, Sonnet)
    /\ call["c1"].response.cost = 50 * 60 + 20 * 300
    /\ ledger[Len(ledger)].model_name = Unlisted
    /\ ledger[Len(ledger)].cost = 50 * 60 + 20 * 300

(***************************************************************************)
(* C22.  A read of the budget status returns exactly the warnings whose    *)
(* condition holds: monthly usage above monthly_soft_cap; monthly usage    *)
(* above 80% of monthly_hard_cap; run cost above per_run_soft_cap; daily   *)
(* usage above daily_soft_cap; monthly_hard_cap less monthly usage below   *)
(* per_run_soft_cap; and the read changes nothing.  The source divides the *)
(* monthly usage by monthly_hard_cap: with a cap of 0 the read raises, and *)
(* with a negative cap the comparison is turned round.                     *)
(***************************************************************************)
WarningsThatHold(b, run_cost, monthly_usage, daily_usage) ==
    (IF monthly_usage > b.monthly_soft_cap
        THEN {"Monthly soft cap exceeded"} ELSE {}) \cup
    (IF monthly_usage > (4 * b.monthly_hard_cap) \div 5
        THEN {"Monthly budget at capacity"} ELSE {}) \cup
    (IF run_cost > b.per_run_soft_cap
        THEN {"Current run cost exceeds soft cap"} ELSE {}) \cup
    (IF daily_usage > b.daily_soft_cap
        THEN {"Daily usage exceeded"} ELSE {}) \cup
    (IF b.monthly_hard_cap - monthly_usage < b.per_run_soft_cap
        THEN {"Insufficient budget remaining for another full run"} ELSE {})

C22_ExactlyTheWarningsThatHold ==
    [][\A tracker \in Trackers, r \in BOOLEAN :
          ReadStatus(tracker, r)
          => /\ "status" \in DOMAIN ret'
             /\ ret'.status.warnings
                    = WarningsThatHold(BudgetOf(tracker), RunCostOf(tracker),
                                       IF r THEN MonthlyUsageRead ELSE 0,
                                       IF r THEN DailyUsageRead ELSE 0)
             /\ UNCHANGED <<budget, costs_budget, current_run_id, current_run_cost,
                            ledger, call>>
      ]_vars

(***************************************************************************)
(* C23.  Whatever requests to update the budget are made, the five caps of *)
(* the tracker's budget are non-negative: a request that carries a         *)
(* negative cap is not applied.  The source checks the two soft caps       *)
(* against their hard caps and nothing else.                               *)
(***************************************************************************)
C23_CapsNonNegative ==
    \A f \in BudgetFields : costs_budget[f] >= 0

(***************************************************************************)
(* C24.  An invocation whose last provider attempt fails (the fallback     *)
(* model fails, or a model other than the primary fails) leaves one row    *)
(* for that attempt in the ledger.  The source inserts rows on the reply   *)
(* path alone, and a row has no field for a failure or its detail.         *)
(***************************************************************************)
C24_FailedAttemptRecorded ==
    [][\A c \in Callers, r \in BOOLEAN :
          (ProviderError(c, r) /\ ~ShouldFallback(call[c].model))
          => /\ Len(ledger') = Len(ledger) + 1
             /\ ledger'[Len(ledger')].model_name = call[c].model
             /\ call'[c].recorded = call[c].recorded + 1
      ]_vars

(***************************************************************************)
(* C25.  With one invocation at a time, the budget and the date unchanged  *)
(* and every realized cost at most its estimate, the cost of the rows of   *)
(* the month stays within monthly_hard_cap, the cost of the rows of the    *)
(* day within one and a half times daily_soft_cap, and the cost accrued by *)
(* the active run within per_run_hard_cap.  The rows carry the UTC clock   *)
(* and are counted here by the UTC calendar.  The source admits on the     *)
(* usage it reads: 0 when the read fails, and 0 for the rows stamped       *)
(* before local midnight when the local clock is ahead of UTC.             *)
(***************************************************************************)
UtcMonthStart == now - (now % TicksPerMonth)
UtcDayStart == now - (now % TicksPerDay)

C25_SequentialStaysWithinCaps ==
    /\ SumCost(ledger, UtcMonthStart) <= budget.monthly_hard_cap
    /\ 2 * SumCost(ledger, UtcDayStart) <= 3 * budget.daily_soft_cap
    /\ current_run_id # NoRun => current_run_cost <= budget.per_run_hard_cap

(***************************************************************************)
(* C26.  The row of a call admitted while run R was active carries run_id  *)
(* R, also when R was ended or another run was started while the request   *)
(* was with the provider.  The source tags the row with current_run_id as  *)
(* it is when the reply is tracked, and adds the cost to whatever run      *)
(* cost is current then.                                                   *)
(***************************************************************************)
C26_RowTaggedWithAdmittingRun ==
    [][\A c \in Callers, u \in UsageData \cup {NoUsage}, w \in BOOLEAN :
          (ProviderReply(c, u, TRUE, w) /\ call[c].admitted.run_id # NoRun)
          => ledger'[Len(ledger')].run_id = call[c].admitted.run_id
      ]_vars

(***************************************************************************)
(* C27.  A request goes to the provider only in a step that has just       *)
(* passed the admission check on the estimate for the model of that        *)
(* request: at the first entry the requested model, at the entry after a   *)
(* failure of the primary model the fallback model, its estimate computed  *)
(* anew.  When the check for the fallback model denies, the invocation     *)
(* ends with the budget error for that estimate and no request is made.    *)
(***************************************************************************)
\* this step posts a request for caller c
AttemptMade(c) ==
    /\ call'[c].pc = "inflight"
    /\ call[c].pc # "inflight" \/ call'[c].attempts # call[c].attempts

C27_EachAttemptHasItsOwnCheck ==
    [][\A c \in Callers, r \in BOOLEAN :
          /\ \A req \in Requests, m \in RequestedModels :
                CallModel(c, req, m, r)
                => LET e == EstimateCallCost(req, ModelOrPrimary(m))
                   IN IF CanMakeCall(GetBudgetStatus(r), e)
                      THEN /\ call'[c].pc = "inflight"
                           /\ call'[c].model = ModelOrPrimary(m)
                           /\ call'[c].estimated_cost = e
                           /\ call'[c].attempts = 1
                      ELSE call'[c].attempts = 0
          /\ ProviderError(c, r)
             => LET e == EstimateCallCost(call[c].req, MODELS.fallback)
                IN IF call[c].model # MODELS.primary
                   THEN call'[c].attempts = call[c].attempts
                   ELSE IF CanMakeCall(GetBudgetStatus(r), e)
                        THEN /\ call'[c].pc = "inflight"
                             /\ call'[c].model = MODELS.fallback
                             /\ call'[c].estimated_cost = e
                             /\ call'[c].attempts = call[c].attempts + 1
                        ELSE /\ BudgetDenied(call'[c])
                             /\ call'[c].error.estimated_cost = e
                             /\ call'[c].attempts = call[c].attempts
          /\ (AttemptMade(c) /\ call'[c].admitted.read_ok = r)
             => /\ call'[c].estimated_cost
                       = EstimateCallCost(call'[c].req, call'[c].model)
                /\ CanMakeCall(GetBudgetStatus(r), call'[c].estimated_cost)
      ]_vars

\* the primary model failed and the check for the fallback model denied
C27_Witness ==
    /\ BudgetDenied(call["c1"])
    /\ call["c1"].attempts = 1
    /\ \E req \in Requests :
          call["c1"].error.estimated_cost = EstimateCallCost(req, MODELS.fallback)

(***************************************************************************)
(* C28.  While a run is active, the run cost the tracker holds is the sum  *)
(* of the costs of the rows tagged with that run's id, whatever start_run, *)
(* tracked replies, failed inserts and end_run came before.  Run ids are   *)
(* fresh at every start_run.                                               *)
(***************************************************************************)
RECURSIVE SumRunCost(_, _)
SumRunCost(rows, run_id) ==
    IF rows = <<>> THEN 0
    ELSE (IF Head(rows).run_id = run_id THEN Head(rows).cost ELSE 0)
         + SumRunCost(Tail(rows), run_id)

C28_RunCostIsSumOfItsRows ==
    current_run_id # NoRun
    => current_run_cost = SumRunCost(ledger, current_run_id)

\* the second run is active and has accrued cost, after a first run that has
\* a row of its own
C28_Witness ==
    /\ current_run_id = 2
    /\ current_run_cost > 0
    /\ SumRunCost(ledger, 1) > 0
    /\ SumRunCost(ledger, 2) = current_run_cost
    /\ Len(ledger) = 2

(***************************************************************************)
(* C29.  Once a request to update the budget has succeeded, the admission  *)
(* decisions of the gateway, in call_model and in start_run, are made on   *)
(* the updated caps.  In the source the update route replaces the budget   *)
(* of its own tracker; the gateway's tracker is another object and keeps   *)
(* the budget it was built with.                                           *)
(***************************************************************************)
AdmitsUnder(b, e) ==
    /\ MonthlyUsageRead + e <= b.monthly_hard_cap
    /\ current_run_cost + e <= b.per_run_hard_cap
    /\ 2 * (DailyUsageRead + e) <= 3 * b.daily_soft_cap

StartsUnder(b) ==
    /\ MonthlyUsageRead < b.monthly_hard_cap
    /\ current_run_cost < b.per_run_hard_cap
    /\ 2 * DailyUsageRead < 3 * b.daily_soft_cap
    /\ MonthlyUsageRead + b.per_run_soft_cap <= b.monthly_hard_cap

C29_GatewayUsesUpdatedCaps ==
    [][costs_budget # DefaultBudget
       => /\ \A c \in Callers, req \in Requests, m \in RequestedModels :
                CallModel(c, req, m, TRUE)
                => (call'[c].pc = "inflight"
                    <=> AdmitsUnder(costs_budget,
                                    EstimateCallCost(req, ModelOrPrimary(m))))
          /\ StartRun(TRUE)
             => (ret'.result = TRUE <=> StartsUnder(costs_budget))
      ]_vars

(***************************************************************************)
(* C30.  When the read of the aggregates fails, the status reports a       *)
(* monthly and a daily usage of 0 and nothing is raised: call_model admits *)
(* an estimate that fits under the caps by itself and, added to the run    *)
(* cost, under per_run_hard_cap, whatever the ledger holds; start_run      *)
(* admits when the run cost is below per_run_hard_cap and per_run_soft_cap *)
(* is at most monthly_hard_cap.                                            *)
(***************************************************************************)
FitsAlone(e) ==
    /\ e <= budget.monthly_hard_cap
    /\ current_run_cost + e <= budget.per_run_hard_cap
    /\ 2 * e <= 3 * budget.daily_soft_cap

C30_FailedReadCountsAsNothingSpent ==
    [][/\ \A c \in Callers :
             /\ \A req \in Requests, m \in RequestedModels :
                    CallModel(c, req, m, FALSE)
                    => IF FitsAlone(EstimateCallCost(req, ModelOrPrimary(m)))
                       THEN /\ call'[c].pc = "inflight"
                            /\ call'[c].admitted.monthly_usage = 0
                       ELSE BudgetDenied(call'[c])
             /\ (ProviderError(c, FALSE) /\ call[c].model = MODELS.primary)
                => IF FitsAlone(EstimateCallCost(call[c].req, MODELS.fallback))
                   THEN /\ call'[c].pc = "inflight"
                        /\ call'[c].admitted.monthly_usage = 0
                   ELSE BudgetDenied(call'[c])
       /\ StartRun(FALSE)
          => /\ "result" \in DOMAIN ret'
             /\ ret'.result = TRUE
                <=> /\ 0 < budget.monthly_hard_cap
                    /\ 0 < budget.daily_soft_cap
                    /\ current_run_cost < budget.per_run_hard_cap
                    /\ budget.per_run_soft_cap <= budget.monthly_hard_cap
      ]_vars

\* admitted on a failed read although the rows of the month leave no room
C30_Witness ==
    /\ call["c1"].pc = "inflight"
    /\ ~call["c1"].admitted.read_ok
    /\ call["c1"].admitted.monthly_usage = 0
    /\ call["c1"].admitted.rows = Len(ledger)
    /\ MonthlyUsageRead + call["c1"].estimated_cost > budget.monthly_hard_cap

====
